---- MODULE Spec2Model ----
(***************************************************************************)
(* A model of the stacky language server (src/src/main.rs): the message    *)
(* loop of main, the request and notification handlers, the completion     *)
(* classifier get_completions, the hover token resolver and the diagnostic *)
(* translation of validate_document.                                       *)
(*                                                                         *)
(* A Rust String is modelled as the sequence of its UTF-8 bytes, one       *)
(* one-character string per ASCII byte; the two bytes of the character     *)
(* U+00E9 are written "C3" and "A9".  Rust indexes and slices strings by   *)
(* byte offset (0-based); the operators below keep the 0-based offsets of  *)
(* the source and convert to the 1-based sequences of TLA+ in Slice.       *)
(***************************************************************************)
EXTENDS Integers, Sequences, FiniteSets, TLC

VARIABLES latest_text, status, msg, out, parses, resolved, lastSeen

vars == <<latest_text, status, msg, out, parses, resolved, lastSeen>>

-----------------------------------------------------------------------------
(* Bounds of the model.                                                    *)

\* longest generated document, in atoms of Atoms
MaxLen == 2
\* largest line index of a request position
MaxLine == 2
\* largest character offset of a request position
MaxCol == 8
\* longest error list the parser returns
MaxErrs == 2
\* largest (1-based) line and column of a parser error position
MaxErrLine == 2
MaxErrCol == 2
\* most content changes carried by one didChange
MaxChanges == 2

-----------------------------------------------------------------------------
(* Characters and strings.                                                 *)

Letters == {"a","b","c","d","e","f","g","h","i","j","k","l","m","n","o","p","q",
            "r","s","t","u","v","w","x","y","z"}

Digits == {"0","1","2","3","4","5","6","7","8","9"}

\* the UTF-8 encoding of U+00E9, a two-byte alphabetic character
EAcute == <<"C3", "A9">>

\* char::is_whitespace, on the characters the documents are made of
is_whitespace(c) == c \in {" ", "\t", "\n", "\r"}

\* char::is_alphanumeric; both bytes of U+00E9 belong to an alphabetic character
is_alphanumeric(c) == c \in Letters \cup Digits \cup {"C3", "A9"}

\* str::is_char_boundary: offset i does not fall on a continuation byte
is_char_boundary(s, i) == i = 0 \/ i = Len(s) \/ (i < Len(s) /\ s[i + 1] # "A9")

\* &s[a..b] for offsets on character boundaries
Slice(s, a, b) == SubSeq(s, a + 1, b)

Min(a, b) == IF a < b THEN a ELSE b

RECURSIVE SplitOn(_, _)
\* the pieces of s between occurrences of the byte sep (the last may be empty)
SplitOn(s, sep) ==
  IF \A i \in 1..Len(s) : s[i] # sep THEN <<s>>
  ELSE LET k == CHOOSE i \in 1..Len(s) : s[i] = sep /\ \A j \in 1..(i - 1) : s[j] # sep
       IN  <<SubSeq(s, 1, k - 1)>> \o SplitOn(SubSeq(s, k + 1, Len(s)), sep)

\* str::lines: split at "\n"; a final empty piece is not a line (no document
\* of the model holds a "\r", so its stripping before "\n" is not modelled)
lines(text) ==
  LET ps == SplitOn(text, "\n")
  IN  IF ps[Len(ps)] = <<>> THEN SubSeq(ps, 1, Len(ps) - 1) ELSE ps

RECURSIVE trim_start(_)
trim_start(s) ==
  IF s # <<>> /\ is_whitespace(s[1]) THEN trim_start(Tail(s)) ELSE s

RECURSIVE trim_end(_)
trim_end(s) ==
  IF s # <<>> /\ is_whitespace(s[Len(s)]) THEN trim_end(SubSeq(s, 1, Len(s) - 1)) ELSE s

\* str::trim
trim(s) == trim_end(trim_start(s))

RECURSIVE split_whitespace(_)
\* str::split_whitespace: the maximal runs of non-whitespace, in order
split_whitespace(s) ==
  LET t == trim_start(s)
  IN  IF t = <<>> THEN <<>>
      ELSE LET n == IF \E i \in 1..Len(t) : is_whitespace(t[i])
                    THEN (CHOOSE i \in 1..Len(t) :
                            is_whitespace(t[i]) /\ \A j \in 1..(i - 1) : ~is_whitespace(t[j])) - 1
                    ELSE Len(t)
           IN  <<SubSeq(t, 1, n)>> \o split_whitespace(SubSeq(t, n + 1, Len(t)))

contains(s, c) == \E i \in 1..Len(s) : s[i] = c

ends_with(s, suffix) ==
  Len(s) >= Len(suffix) /\ SubSeq(s, Len(s) - Len(suffix) + 1, Len(s)) = suffix

starts_with(s, prefix) ==
  Len(s) >= Len(prefix) /\ SubSeq(s, 1, Len(prefix)) = prefix

RECURSIVE trim_end_matches(_, _)
\* str::trim_end_matches: every trailing repetition of the pattern is removed
trim_end_matches(s, pat) ==
  IF ends_with(s, pat) THEN trim_end_matches(SubSeq(s, 1, Len(s) - Len(pat)), pat) ELSE s

\* the closure of the hover handler's trim_matches: |c| !c.is_alphanumeric() && c != '_'
not_word_char(c) == ~is_alphanumeric(c) /\ c # "_"

RECURSIVE trim_matches_not_word(_)
\* str::trim_matches with that closure: strips both ends, never the interior
trim_matches_not_word(s) ==
  IF s # <<>> /\ not_word_char(s[1]) THEN trim_matches_not_word(Tail(s))
  ELSE IF s # <<>> /\ not_word_char(s[Len(s)])
       THEN trim_matches_not_word(SubSeq(s, 1, Len(s) - 1))
       ELSE s

-----------------------------------------------------------------------------
(* Static data.                                                            *)

\* the names of the command catalog, in catalog order
COMMANDS ==
    << <<"n","o","p">>,
       <<"p","u","s","h">>,
       <<"p","o","p">>,
       <<"a","d","d">>,
       <<"s","u","b">>,
       <<"m","u","l">>,
       <<"d","i","v">>,
       <<"m","o","d">>,
       <<"n","e","g">>,
       <<"d","u","p">>,
       <<"p","r","i","n","t">>,
       <<"p","r","i","n","t","l","n">>,
       <<"r","e","a","d">>,
       <<"g","o","t","o">>,
       <<"b","r">>,
       <<"l","o","a","d">>,
       <<"s","t","o","r","e">>,
       <<"g","t">>,
       <<"l","t">>,
       <<"g","e">>,
       <<"l","e">>,
       <<"e","q">>,
       <<"n","e">>,
       <<"a","n","d">>,
       <<"o","r">>,
       <<"n","o","t">>,
       <<"x","o","r">>,
       <<"s","h","l">>,
       <<"s","h","r">>,
       <<"c","o","n","v","e","r","t">>,
       <<"r","o","t","l">>,
       <<"r","o","t","r">>,
       <<"c","l","z">>,
       <<"c","t","z">>,
       <<"m","i","n">>,
       <<"m","a","x">>,
       <<"a","b","s">>,
       <<"s","i","g","n">>,
       <<"c","e","i","l">>,
       <<"f","l","o","o","r">>,
       <<"t","r","u","n","c">>,
       <<"s","q","r","t">>,
       <<"p","o","w">>,
       <<"s","i","n">>,
       <<"c","o","s">>,
       <<"t","a","n">>,
       <<"a","s","i","n">>,
       <<"a","c","o","s">>,
       <<"a","t","a","n">>,
       <<"s","i","n","h">>,
       <<"c","o","s","h">>,
       <<"t","a","n","h">>,
       <<"a","s","i","n","h">>,
       <<"a","c","o","s","h">>,
       <<"a","t","a","n","h">>,
       <<"e","x","p">>,
       <<"l","o","g">>,
       <<"l","e","n">>,
       <<"g","e","t","a","r","g">>,
       <<"a","s","s","e","r","t">>,
       <<"e","r","r","o","r">>,
       <<"e","x","i","t">> >>

\* the keys of the signature-override map
SIGNATURES ==
  { <<"s","t","o","r","e">>, <<"l","o","a","d">>, <<"g","o","t","o">>, <<"b","r">>,
    <<"c","o","n","v","e","r","t">> }

constants == << <<"t","r","u","e">>, <<"f","a","l","s","e">>, <<"n","i","l">> >>

type_names == << <<"s","t","r","i","n","g">>, <<"i","n","t">>, <<"f","l","o","a","t">>,
                 <<"b","o","o","l">>, <<"n","i","l">> >>

kw_push == <<"p","u","s","h">>
kw_convert == <<"c","o","n","v","e","r","t">>
kw_goto == <<"g","o","t","o">>
kw_br == <<"b","r">>
kw_load == <<"l","o","a","d">>
kw_store == <<"s","t","o","r","e">>

-----------------------------------------------------------------------------
(* get_completions.                                                        *)

RECURSIVE harvest_labels(_)
\* the labels loop over text.lines(): a trimmed line ending in ":" gives a label
harvest_labels(ls) ==
  IF ls = <<>> THEN <<>>
  ELSE LET t == trim(ls[1])
       IN  (IF ends_with(t, <<":">>) THEN <<trim_end_matches(t, <<":">>)>> ELSE <<>>)
           \o harvest_labels(Tail(ls))

\* t[6..].split_whitespace().next().unwrap_or("") of a trimmed line starting "store "
store_name(t) ==
  LET ws == split_whitespace(Slice(t, 6, Len(t)))
  IN  IF ws = <<>> THEN <<>> ELSE ws[1]

RECURSIVE harvest_locals(_)
\* the locals loop over text.lines()
harvest_locals(ls) ==
  IF ls = <<>> THEN <<>>
  ELSE LET t == trim(ls[1])
       IN  (IF starts_with(t, kw_store \o <<" ">>) /\ store_name(t) # <<>>
            THEN <<store_name(t)>> ELSE <<>>)
           \o harvest_locals(Tail(ls))

\* col.min(linetext.len()) for the line at index line
clamp_col(ls, line, col) == Min(col, Len(ls[line + 1]))

\* &linetext[..col.min(linetext.len())] panics off a character boundary
prefix_panics(ls, line, col) ==
  line < Len(ls) /\ ~is_char_boundary(ls[line + 1], clamp_col(ls, line, col))

\* &linetext[..col.min(linetext.len())], for line < lines.len()
prefix_of(ls, line, col) == Slice(ls[line + 1], 0, clamp_col(ls, line, col))

\* is_line_head with the out-of-range branch giving false
is_line_head_false_past_end(ls, line, col) ==
  IF line < Len(ls)
  THEN LET prefix == prefix_of(ls, line, col)
       IN  IF trim(prefix) = <<>> THEN TRUE
           ELSE Len(split_whitespace(prefix)) <= 1 /\ ~ends_with(prefix, <<" ">>)
  ELSE FALSE

\* is_line_head without the test of the trailing space
is_line_head_ignoring_space(ls, line, col) ==
  IF line < Len(ls)
  THEN LET prefix == prefix_of(ls, line, col)
       IN  IF trim(prefix) = <<>> THEN TRUE
           ELSE Len(split_whitespace(prefix)) <= 1
  ELSE TRUE

\* the value of is_line_head when the comment guard has not returned
is_line_head(ls, line, col) ==
  IF line < Len(ls)
  THEN LET prefix == prefix_of(ls, line, col)
       IN  IF trim(prefix) = <<>> THEN TRUE
           ELSE Len(split_whitespace(prefix)) <= 1 /\ ~ends_with(prefix, <<" ">>)
  ELSE TRUE

\* prefix.split_whitespace().last(), <<>> standing for None (no word is empty)
last_word(prefix) ==
  LET ws == split_whitespace(prefix)
  IN  IF ws = <<>> THEN <<>> ELSE ws[Len(ws)]

show_constants(ls, line, col) ==
  line < Len(ls) /\ last_word(prefix_of(ls, line, col)) = kw_push

\* parts.len() >= 1 && parts[0] == "convert"
show_types(ls, line, col) ==
  /\ line < Len(ls)
  /\ LET parts == split_whitespace(prefix_of(ls, line, col))
     IN  Len(parts) >= 1 /\ parts[1] = kw_convert

show_labels(ls, line, col) ==
  line < Len(ls) /\ last_word(prefix_of(ls, line, col)) \in {kw_goto, kw_br}

show_locals(ls, line, col) ==
  line < Len(ls) /\ last_word(prefix_of(ls, line, col)) \in {kw_load, kw_store}

\* one CompletionItem per label, with the kind and detail of its group
Items(labels, kind, detail) ==
  [i \in 1..Len(labels) |-> [label |-> labels[i], kind |-> kind, detail |-> detail]]

\* the returned Vec<CompletionItem>, when the prefix slice does not panic
get_completions(text, line, col) ==
  LET ls == lines(text)
  IN  IF line < Len(ls) /\ contains(prefix_of(ls, line, col), ";") THEN <<>>
      ELSE (IF is_line_head(ls, line, col)
            THEN Items(COMMANDS, "KEYWORD", "command") ELSE <<>>)
        \o (IF show_constants(ls, line, col)
            THEN Items(constants, "KEYWORD", "constant") ELSE <<>>)
        \o (IF show_types(ls, line, col)
            THEN Items(type_names, "KEYWORD", "type") ELSE <<>>)
        \o (IF show_labels(ls, line, col)
            THEN Items(harvest_labels(ls), "FIELD", "label") ELSE <<>>)
        \o (IF show_locals(ls, line, col)
            THEN Items(harvest_locals(ls), "VARIABLE", "variable") ELSE <<>>)

-----------------------------------------------------------------------------
(* The hover handler's token resolution.                                   *)

\* l[..col] and l[col..] panic when col is off a character boundary
hover_panics(ls, line, col) ==
  line < Len(ls) /\ ~is_char_boundary(ls[line + 1], clamp_col(ls, line, col))

\* l[..col].rfind(is_whitespace).map(|p| p + 1).unwrap_or(0)
token_start(l, col) ==
  LET ws == {p \in 0..(col - 1) : is_whitespace(l[p + 1])}
  IN  IF ws = {} THEN 0 ELSE (CHOOSE p \in ws : \A q \in ws : q <= p) + 1

\* l[col..].find(is_whitespace).map(|p| col + p).unwrap_or(l.len())
token_end(l, col) ==
  LET ws == {p \in col..(Len(l) - 1) : is_whitespace(l[p + 1])}
  IN  IF ws = {} THEN Len(l) ELSE CHOOSE p \in ws : \A q \in ws : p <= q

\* the token after the fallback, for line_idx < lines.len()
hover_token(l, character) ==
  LET col   == Min(character, Len(l))
      token == trim_matches_not_word(Slice(l, token_start(l, col), token_end(l, col)))
      ws    == split_whitespace(l)
  IN  IF token # <<>> THEN token
      ELSE IF ws = <<>> THEN <<>> ELSE ws[1]

\* hover_result: None, or the catalog entry whose name is the token
hover_result(text, line, character) ==
  LET ls == lines(text)
  IN  IF line < Len(ls)
         /\ \E i \in 1..Len(COMMANDS) : COMMANDS[i] = hover_token(ls[line + 1], character)
      THEN LET name == hover_token(ls[line + 1], character)
           IN  [name |-> name, signature |-> name \in SIGNATURES]
      ELSE [name |-> <<>>, signature |-> FALSE]

-----------------------------------------------------------------------------
(* validate_document.                                                      *)

\* start_of with the column left 1-based
start_of_raw_col(pos) ==
  IF pos.line = 0 THEN <<0, 0>>
  ELSE <<pos.line - 1, pos.col>>

\* (start_line, start_char) of one error position
start_of(pos) ==
  IF pos.line = 0 THEN <<0, 0>>
  ELSE <<pos.line - 1, IF pos.col = 0 THEN 0 ELSE pos.col - 1>>

\* end_char with an unknown line ending where it starts
end_char_empty_when_unknown(ls, pos) ==
  IF pos.line = 0 THEN 0
  ELSE IF pos.line - 1 < Len(ls) THEN Len(ls[pos.line])
  ELSE (IF pos.col = 0 THEN 0 ELSE pos.col - 1) + 1

\* lines.get(start_line).map(|l| l.len()).unwrap_or(start_char + 1)
end_char(ls, pos) ==
  IF start_of(pos)[1] < Len(ls) THEN Len(ls[start_of(pos)[1] + 1])
  ELSE start_of(pos)[2] + 1

\* the Diagnostic pushed for one error
diagnostic(ls, err) ==
  [start   |-> [line |-> start_of(err.pos)[1], character |-> start_of(err.pos)[2]],
   end     |-> [line |-> start_of(err.pos)[1], character |-> end_char(ls, err.pos)],
   message |-> err.kind]

\* the diagnostics vector: empty on Ok, one entry per error of Err, in order
diagnostics(text, parsed) ==
  IF parsed.ok THEN <<>>
  ELSE [i \in 1..Len(parsed.errors) |-> diagnostic(lines(text), parsed.errors[i])]

\* the publishDiagnostics notification validate_document sends
publish(uri, text, parsed) ==
  [type |-> "publishDiagnostics", uri |-> uri, diagnostics |-> diagnostics(text, parsed)]

-----------------------------------------------------------------------------
(* The inputs the environment (the editor and the external parser) offers. *)

Uris == {"u1", "u2"}

ReqIds == {1, 2}

\* the result of stacky::Script::from_str: Ok, or Err with the error list
ParseOk == [ok |-> TRUE, errors |-> <<>>]

ParseErr(errs) == [ok |-> FALSE, errors |-> errs]

ErrPositions == [line : 0..MaxErrLine, col : 0..MaxErrCol]

ParseErrors == [kind : {"E"}, pos : ErrPositions]

\* every result of the parser with at most MaxErrs errors (Err is never empty)
ParseResults ==
  {ParseOk} \cup {ParseErr(es) : es \in UNION {[1..n -> ParseErrors] : n \in 1..MaxErrs}}

Positions == [line : 0..MaxLine, character : 0..MaxCol]

\* the atoms the generated documents are made of
Atoms == {kw_push, kw_convert, kw_goto, kw_br, kw_load, kw_store,
          <<"a">>, <<" ">>, <<":">>, <<";">>, <<"\n">>, EAcute}

RECURSIVE Flatten(_)
Flatten(ss) == IF ss = <<>> THEN <<>> ELSE ss[1] \o Flatten(Tail(ss))

GeneratedTexts == {Flatten(ss) : ss \in UNION {[1..n -> Atoms] : n \in 0..MaxLen}}

\* "push 1\npush 2\nadd\nprintln\n"
Scenario1 == kw_push \o <<" ","1","\n">> \o kw_push \o <<" ","2","\n","a","d","d","\n">>
             \o <<"p","r","i","n","t","l","n","\n">>

\* "loop:\n  push 1\n  goto loop\n"
Scenario2 == <<"l","o","o","p",":","\n"," "," ">> \o kw_push \o <<" ","1","\n"," "," ">>
             \o kw_goto \o <<" ","l","o","o","p","\n">>

\* "store counter\nload "
Scenario3 == kw_store \o <<" ","c","o","u","n","t","e","r","\n">> \o kw_load \o <<" ">>

\* "b::\nstore  y z\nbr \tx": a label with two colons, a local, a tab
Scenario4 == <<"b",":",":","\n">> \o kw_store \o <<" "," ","y"," ","z","\n">>
             \o kw_br \o <<" ","\t","x">>

ScenarioTexts == {Scenario1, Scenario2, Scenario3, Scenario4}

Texts == GeneratedTexts \cup ScenarioTexts

\* the documents of the message-loop specification
ServerTexts == {<<";">>, kw_br}

ServerPositions == [line : 0..1, character : 0..1]

ServerParseResults ==
  {ParseOk, ParseErr(<<[kind |-> "E", pos |-> [line |-> 1, col |-> 1]]>>)}

\* the documents of the diagnostics specification: up to MaxLen bytes of "a" and "\n"
DiagTexts == UNION {[1..n -> {"a", "\n"}] : n \in 0..MaxLen}

ChangeLists(T) == UNION {[1..n -> T] : n \in 0..MaxChanges}

-----------------------------------------------------------------------------
(* Messages.                                                               *)

NoPos == [line |-> 0, character |-> 0]

\* a message read from connection.receiver, as the handlers see it
Message(type, method, id, uri, wellformed, position, texts) ==
  [type |-> type, method |-> method, id |-> id, uri |-> uri,
   wellformed |-> wellformed, position |-> position, texts |-> texts]

NoMessage == Message("none", "", 0, "", TRUE, NoPos, <<>>)

\* a Response with error: None
Response(id, kind, result) == [type |-> "response", id |-> id, kind |-> kind, result |-> result]

-----------------------------------------------------------------------------
(* The state machine.                                                      *)
(*   latest_text  the static LATEST_TEXT                                   *)
(*   status       "running" in the loop of main; "stopped" after main      *)
(*                returned Ok; "failed" after main returned an Err that a  *)
(*                handler propagated with ?; "panicked" after a panic      *)
(*   msg          the message the loop read last                           *)
(*   out          what was sent on connection.sender while handling msg    *)
(*   parses       the results of the parser calls made while handling msg  *)
(*   resolved     the local `token` of the hover handler when it has       *)
(*                finished resolving for msg (empty otherwise)             *)
(*   lastSeen     history: for each URI the texts carried by the most      *)
(*                recent didOpen/didChange for it that carried a text      *)
(***************************************************************************)

Init ==
  /\ latest_text = <<>>
  /\ status = "running"
  /\ msg = NoMessage
  /\ out = <<>>
  /\ parses = <<>>
  /\ resolved = <<>>
  /\ lastSeen = [u \in Uris |-> {}]


Range(f) == {f[i] : i \in DOMAIN f}

\* main returns the Err a handler's ? propagated: nothing is sent, the loop ends
Fails ==
  /\ status' = "failed"
  /\ out' = <<>>
  /\ parses' = <<>>
  /\ resolved' = <<>>
  /\ UNCHANGED <<latest_text, lastSeen>>

\* the thread of main panics: nothing is sent, the loop ends
Panics ==
  /\ status' = "panicked"
  /\ out' = <<>>
  /\ parses' = <<>>
  /\ resolved' = <<>>
  /\ UNCHANGED <<latest_text, lastSeen>>

\* a message handled without a reply and without a change of state
Ignored ==
  /\ out' = <<>>
  /\ parses' = <<>>
  /\ resolved' = <<>>
  /\ UNCHANGED <<latest_text, status, lastSeen>>

\* main, Message::Request with method "initialize"
Initialize(id) ==
  /\ status = "running"
  /\ msg' = Message("request", "initialize", id, "", TRUE, NoPos, <<>>)
  /\ out' = <<Response(id, "initialize", <<>>)>>
  /\ parses' = <<>>
  /\ resolved' = <<>>
  /\ UNCHANGED <<latest_text, status, lastSeen>>

\* main, Message::Request with method "shutdown": respond and return Ok
Shutdown(id) ==
  /\ status = "running"
  /\ msg' = Message("request", "shutdown", id, "", TRUE, NoPos, <<>>)
  /\ out' = <<Response(id, "shutdown", <<>>)>>
  /\ status' = "stopped"
  /\ parses' = <<>>
  /\ resolved' = <<>>
  /\ UNCHANGED <<latest_text, lastSeen>>

\* handle_request, "textDocument/completion"
Completion(id, uri, wellformed, pos) ==
  /\ status = "running"
  /\ msg' = Message("request", "textDocument/completion", id, uri, wellformed, pos, <<>>)
  /\ IF ~wellformed THEN Fails
     ELSE IF prefix_panics(lines(latest_text), pos.line, pos.character) THEN Panics
     ELSE /\ out' = <<Response(id, "completion",
                               get_completions(latest_text, pos.line, pos.character))>>
          /\ parses' = <<>>
          /\ resolved' = <<>>
          /\ UNCHANGED <<latest_text, status, lastSeen>>

\* handle_request, "textDocument/hover"
Hover(id, uri, wellformed, pos) ==
  /\ status = "running"
  /\ msg' = Message("request", "textDocument/hover", id, uri, wellformed, pos, <<>>)
  /\ IF ~wellformed THEN Fails
     ELSE IF hover_panics(lines(latest_text), pos.line, pos.character) THEN Panics
     ELSE /\ out' = <<Response(id, "hover",
                               hover_result(latest_text, pos.line, pos.character))>>
          /\ resolved' = IF pos.line < Len(lines(latest_text))
                      THEN hover_token(lines(latest_text)[pos.line + 1], pos.character)
                      ELSE <<>>
          /\ parses' = <<>>
          /\ UNCHANGED <<latest_text, status, lastSeen>>

\* handle_request, any other method: no response is sent
OtherRequest(id, method) ==
  /\ status = "running"
  /\ msg' = Message("request", method, id, "", TRUE, NoPos, <<>>)
  /\ Ignored

\* main, Message::Response(_) => {}
ClientResponse(id) ==
  /\ status = "running"
  /\ msg' = Message("response", "", id, "", TRUE, NoPos, <<>>)
  /\ Ignored

\* main, the "initialized" notification
Initialized ==
  /\ status = "running"
  /\ msg' = Message("notification", "initialized", 0, "", TRUE, NoPos, <<>>)
  /\ Ignored

\* handle_notification, "textDocument/didOpen"; res is what the parser returns
DidOpen(uri, wellformed, text, res) ==
  /\ status = "running"
  /\ msg' = Message("notification", "textDocument/didOpen", 0, uri, wellformed, NoPos,
                    IF wellformed THEN <<text>> ELSE <<>>)
  /\ IF ~wellformed THEN Fails
     ELSE /\ latest_text' = text
          /\ out' = <<publish(uri, text, res)>>
          /\ parses' = <<res>>
          /\ lastSeen' = [lastSeen EXCEPT ![uri] = {text}]
          /\ resolved' = <<>>
          /\ UNCHANGED status

\* the text handle_notification takes from a didChange: content_changes.first()
changed_text(changes) == changes[1]

\* handle_notification, "textDocument/didChange"
DidChange(uri, wellformed, changes, res) ==
  /\ status = "running"
  /\ msg' = Message("notification", "textDocument/didChange", 0, uri, wellformed, NoPos,
                    IF wellformed THEN changes ELSE <<>>)
  /\ IF ~wellformed THEN Fails
     ELSE IF changes = <<>> THEN Ignored
     ELSE /\ latest_text' = changed_text(changes)
          /\ out' = <<publish(uri, changed_text(changes), res)>>
          /\ parses' = <<res>>
          /\ lastSeen' = [lastSeen EXCEPT ![uri] = Range(changes)]
          /\ resolved' = <<>>
          /\ UNCHANGED status

\* handle_notification, any other method
OtherNotification(method) ==
  /\ status = "running"
  /\ msg' = Message("notification", method, 0, "", TRUE, NoPos, <<>>)
  /\ Ignored

\* the message loop of main over every message the bounded environment can send
Next ==
  \/ \E id \in ReqIds : Initialize(id)
  \/ \E id \in ReqIds : Shutdown(id)
  \/ \E id \in ReqIds, u \in Uris, wf \in BOOLEAN, pos \in ServerPositions :
        Completion(id, u, wf, pos)
  \/ \E id \in ReqIds, u \in Uris, wf \in BOOLEAN, pos \in ServerPositions :
        Hover(id, u, wf, pos)
  \/ \E id \in ReqIds, m \in {"textDocument/signatureHelp", "workspace/symbol"} :
        OtherRequest(id, m)
  \/ \E id \in ReqIds : ClientResponse(id)
  \/ Initialized
  \/ \E u \in Uris, wf \in BOOLEAN, t \in ServerTexts, res \in ServerParseResults :
        DidOpen(u, wf, t, res)
  \/ \E u \in Uris, wf \in BOOLEAN, cs \in ChangeLists(ServerTexts),
        res \in ServerParseResults : DidChange(u, wf, cs, res)
  \/ \E m \in {"textDocument/didClose", "exit"} : OtherNotification(m)

Spec == Init /\ [][Next]_vars

\* one document opened, then one completion or hover request on it
NextRequest ==
  \/ /\ msg.type = "none"
     /\ \E t \in Texts : DidOpen("u1", TRUE, t, ParseOk)
  \/ /\ msg.method = "textDocument/didOpen"
     /\ \E pos \in Positions : Completion(1, "u1", TRUE, pos)
  \/ /\ msg.method = "textDocument/didOpen"
     /\ \E pos \in Positions : Hover(1, "u1", TRUE, pos)

SpecRequest == Init /\ [][NextRequest]_vars

\* one document event, with every result the parser can give on it
NextDiag ==
  \/ /\ msg.type = "none"
     /\ \E t \in DiagTexts, res \in ParseResults : DidOpen("u1", TRUE, t, res)
  \/ /\ msg.type = "none"
     /\ \E t \in DiagTexts, res \in ParseResults : DidChange("u1", TRUE, <<t>>, res)

SpecDiag == Init /\ [][NextDiag]_vars

-----------------------------------------------------------------------------
(* Properties.                                                             *)

IsCompletion == msg.type = "request" /\ msg.method = "textDocument/completion"

IsHover == msg.type = "request" /\ msg.method = "textDocument/hover"

IsTextEvent ==
  /\ msg.type = "notification"
  /\ msg.method \in {"textDocument/didOpen", "textDocument/didChange"}

\* the labels of a completion list, in order
Labels(items) == [i \in 1..Len(items) |-> items[i].label]

\* the items of a completion list that carry the given detail, in order
RECURSIVE WithDetail(_, _)
WithDetail(items, detail) ==
  IF items = <<>> THEN <<>>
  ELSE (IF items[1].detail = detail THEN <<items[1]>> ELSE <<>>)
       \o WithDetail(Tail(items), detail)

\* the lines of the stored text, and the line and prefix a request points at
StoredLines == lines(latest_text)

OnExistingLine == msg.position.line < Len(StoredLines)

RequestLine == StoredLines[msg.position.line + 1]

RequestPrefix ==
  SubSeq(RequestLine, 1, Min(msg.position.character, Len(RequestLine)))

\* the texts a request for URI d may be answered from: those the most recent
\* open/change event for d carried, the empty text if there was none
OwnTexts(d) == IF lastSeen[d] = {} THEN {<<>>} ELSE lastSeen[d]

(* C1: a completion or hover response for document d is computed from the  *)
(* text carried by the most recent didOpen/didChange for d itself (the     *)
(* empty text if there was none), whatever events other documents had.     *)
C1_AnsweredFromOwnDocument ==
  /\ (IsCompletion /\ out # <<>>) =>
       \E t \in OwnTexts(msg.uri) :
         /\ ~prefix_panics(lines(t), msg.position.line, msg.position.character)
         /\ out[1].result = get_completions(t, msg.position.line, msg.position.character)
  /\ (IsHover /\ out # <<>>) =>
       \E t \in OwnTexts(msg.uri) :
         /\ ~hover_panics(lines(t), msg.position.line, msg.position.character)
         /\ out[1].result = hover_result(t, msg.position.line, msg.position.character)

\* the full new text of a document event: the text of its last content change
NewText == msg.texts[Len(msg.texts)]

(* C2: after a didOpen or didChange that carries text, the stored text is  *)
(* the event's full new text (the last content change of a didChange) and  *)
(* exactly one publishDiagnostics for the event's URI has been sent, its   *)
(* list being the translation of the parser's result on that new text.     *)
C2_EventStoresNewTextAndPublishesOnce ==
  (IsTextEvent /\ msg.wellformed /\ msg.texts # <<>>) =>
    /\ latest_text = NewText
    /\ Len(parses) = 1
    /\ out = <<publish(msg.uri, NewText, parses[1])>>

(* C3: a completion or hover request whose params do not have the expected *)
(* shape is answered by an error response carrying the request's id.       *)
C3_MalformedRequestGetsErrorResponse ==
  ((IsCompletion \/ IsHover) /\ ~msg.wellformed) =>
    /\ Len(out) = 1
    /\ out[1].type = "response"
    /\ out[1].id = msg.id
    /\ out[1].kind = "error"

(* C4 as stated: a completion position on a line index at or beyond the    *)
(* number of lines of the stored text gets the empty list, without failing.*)
C4_OutOfRangeLineGivesEmptyList ==
  (IsCompletion /\ ~OnExistingLine) =>
    /\ status = "running"
    /\ Len(out) = 1
    /\ out[1].result = <<>>

(* C4 amended: a completion position on a line index at or beyond the      *)
(* number of lines gets exactly the catalog commands, without failing; a   *)
(* column beyond the end of an existing line gets the answer of the column *)
(* at the end of that line.                                                *)
C4_OutOfRangeLineGivesCommands ==
  /\ (IsCompletion /\ ~OnExistingLine) =>
       /\ status = "running"
       /\ out = <<Response(msg.id, "completion", Items(COMMANDS, "KEYWORD", "command"))>>
  /\ (IsCompletion /\ OnExistingLine /\ msg.position.character > Len(RequestLine)) =>
       /\ status = "running"
       /\ out = <<Response(msg.id, "completion",
                           get_completions(latest_text, msg.position.line, Len(RequestLine)))>>

C4_Witness ==
  /\ IsCompletion
  /\ latest_text # <<>>
  /\ ~OnExistingLine
  /\ msg.position.character > 0
  /\ status = "running"
  /\ Labels(out[1].result) = COMMANDS

\* the list the classification rules of C5 give for a prefix
ListForPrefix(prefix) ==
  LET ws == split_whitespace(prefix)
      lw == IF ws = <<>> THEN <<>> ELSE ws[Len(ws)]
  IN  IF \E i \in 1..Len(prefix) : prefix[i] = ";" THEN <<>>
      ELSE (IF (\A i \in 1..Len(prefix) : is_whitespace(prefix[i]))
               \/ (Len(ws) <= 1 /\ prefix[Len(prefix)] # " ")
            THEN COMMANDS ELSE <<>>)
        \o (IF lw = kw_push THEN constants ELSE <<>>)
        \o (IF ws # <<>> /\ ws[1] = kw_convert THEN type_names ELSE <<>>)
        \o (IF lw \in {kw_goto, kw_br} THEN harvest_labels(StoredLines) ELSE <<>>)
        \o (IF lw \in {kw_load, kw_store} THEN harvest_locals(StoredLines) ELSE <<>>)

(* C5: for every text and every position on an existing line the request   *)
(* is answered, and the list is empty when the prefix holds ';', otherwise *)
(* commands, constants, types, labels, locals in that order, each under    *)
(* its condition on the prefix.                                            *)
C5_ListFollowsPrefixRules ==
  (IsCompletion /\ OnExistingLine) =>
    /\ status = "running"
    /\ Len(out) = 1
    /\ Labels(out[1].result) = ListForPrefix(RequestPrefix)

(* C5 on the requests that are answered: the list follows the rules        *)
(* whenever the clamped column falls on a character boundary.              *)
C5_ListFollowsPrefixRulesWhenAnswered ==
  (IsCompletion /\ OnExistingLine /\ status = "running") =>
    /\ Len(out) = 1
    /\ Labels(out[1].result) = ListForPrefix(RequestPrefix)

\* the prefix is one word followed by a space
OneWordThenSpace(prefix) ==
  Len(split_whitespace(prefix)) = 1 /\ prefix[Len(prefix)] = " "

(* C6 as stated: with the prefix "push " (scenario 1, line 0, character 5) *)
(* the list holds the catalog commands and then true, false, nil.          *)
C6_PushSpaceIsLineHead ==
  (IsCompletion /\ latest_text = Scenario1
     /\ msg.position = [line |-> 0, character |-> 5]) =>
    /\ Len(out) = 1
    /\ Labels(out[1].result) = COMMANDS \o constants

(* C6 amended: a prefix of one word followed by a space is not the head of *)
(* the line, so no command is offered; with the prefix "push " the list is *)
(* exactly true, false, nil.                                               *)
C6_PushSpaceGivesConstantsOnly ==
  (IsCompletion /\ OnExistingLine /\ OneWordThenSpace(RequestPrefix)) =>
    /\ status = "running"
    /\ Len(out) = 1
    /\ WithDetail(out[1].result, "command") = <<>>
    /\ split_whitespace(RequestPrefix) = <<kw_push>> =>
         out[1].result = Items(constants, "KEYWORD", "constant")

C6_Witness ==
  /\ IsCompletion
  /\ latest_text = Scenario1
  /\ msg.position = [line |-> 0, character |-> 5]
  /\ RequestPrefix = kw_push \o <<" ">>
  /\ Labels(out[1].result) = constants

RECURSIVE LabelsBeforeFinalColon(_)
\* per line whose trimmed text ends in ':', the trimmed text before that final colon
LabelsBeforeFinalColon(ls) ==
  IF ls = <<>> THEN <<>>
  ELSE LET t == trim(ls[1])
       IN  (IF t # <<>> /\ t[Len(t)] = ":" THEN <<SubSeq(t, 1, Len(t) - 1)>> ELSE <<>>)
           \o LabelsBeforeFinalColon(Tail(ls))

(* C7: the label items offered after goto/br are, in document order, one   *)
(* per line whose trimmed text ends in ':', each the trimmed text before   *)
(* the final colon.                                                        *)
C7_LabelsAreTextBeforeFinalColon ==
  (IsCompletion /\ OnExistingLine /\ status = "running"
     /\ show_labels(StoredLines, msg.position.line, msg.position.character)
     /\ ~contains(RequestPrefix, ";")) =>
    Labels(WithDetail(out[1].result, "label")) = LabelsBeforeFinalColon(StoredLines)

(* C7, the part the code keeps: one label item per line whose trimmed text *)
(* ends in ':', in document order, each that text without any trailing ':' *)
C7_OneLabelPerColonLine ==
  (IsCompletion /\ OnExistingLine /\ status = "running"
     /\ show_labels(StoredLines, msg.position.line, msg.position.character)
     /\ ~contains(RequestPrefix, ";")) =>
    LET got  == Labels(WithDetail(out[1].result, "label"))
        want == LabelsBeforeFinalColon(StoredLines)
    IN  /\ Len(got) = Len(want)
        /\ \A i \in 1..Len(got) : got[i] = trim_end_matches(want[i], <<":">>)

(* C8: a hover request never panics, and the token it resolves is empty or *)
(* made of alphanumeric and underscore characters only.                    *)
C8_HoverTokenIsWord ==
  IsHover =>
    /\ status = "running"
    /\ \A i \in 1..Len(resolved) : is_alphanumeric(resolved[i]) \/ resolved[i] = "_"

\* the diagnostics of the publishDiagnostics sent for the last document event
Published == out[1].diagnostics

HasDiagnostics == IsTextEvent /\ Len(out) = 1 /\ Len(parses) = 1

(* C9 as stated: an error with line = 0 gets the range (0,0)-(0,0).        *)
C9_UnknownLineGivesEmptyRange ==
  HasDiagnostics =>
    \A i \in 1..Len(parses[1].errors) :
      parses[1].errors[i].pos.line = 0 =>
        /\ i <= Len(Published)
        /\ Published[i].start = [line |-> 0, character |-> 0]
        /\ Published[i].end = [line |-> 0, character |-> 0]

(* C9 amended: an error with line = 0 gets start (0,0) and end line 0; the *)
(* end character is the length of the document's first line, and 1 when    *)
(* the document has no line.                                               *)
C9_UnknownLineSpansFirstLine ==
  HasDiagnostics =>
    \A i \in 1..Len(parses[1].errors) :
      parses[1].errors[i].pos.line = 0 =>
        /\ i <= Len(Published)
        /\ Published[i].start = [line |-> 0, character |-> 0]
        /\ Published[i].end.line = 0
        /\ Published[i].end.character =
             IF StoredLines = <<>> THEN 1 ELSE Len(StoredLines[1])

C9_Witness ==
  /\ HasDiagnostics
  /\ StoredLines # <<>>
  /\ Len(StoredLines[1]) = 2
  /\ Len(Published) = 1
  /\ parses[1].errors[1].pos = [line |-> 0, col |-> 2]
  /\ Published[1].end = [line |-> 0, character |-> 2]

(* C10: one diagnostic per error, in the parser's order; an error at line  *)
(* L > 0, column C starts at (L-1, C-1), at (L-1, 0) when C = 0, ends on   *)
(* the same line, at the length of line L-1 when the document has that     *)
(* line and at start character + 1 otherwise.                              *)
C10_KnownLineRange ==
  HasDiagnostics =>
    /\ Len(Published) = Len(parses[1].errors)
    /\ \A i \in 1..Len(parses[1].errors) :
         LET L == parses[1].errors[i].pos.line
             C == parses[1].errors[i].pos.col
             d == Published[i]
         IN  /\ d.message = parses[1].errors[i].kind
             /\ L > 0 =>
                  /\ d.start.line = L - 1
                  /\ d.start.character = (IF C = 0 THEN 0 ELSE C - 1)
                  /\ d.end.line = d.start.line
                  /\ d.end.character =
                       IF L <= Len(StoredLines) THEN Len(StoredLines[L])
                       ELSE d.start.character + 1

C10_Witness ==
  /\ HasDiagnostics
  /\ Len(StoredLines) = 1
  /\ Len(Published) = 2
  /\ parses[1].errors[1].pos = [line |-> 2, col |-> 2]
  /\ parses[1].errors[2].pos = [line |-> 1, col |-> 0]
  /\ Published[1].start = [line |-> 1, character |-> 1]
  /\ Published[1].end = [line |-> 1, character |-> 2]
  /\ Published[2].start = [line |-> 0, character |-> 0]
  /\ Published[2].end = [line |-> 0, character |-> Len(StoredLines[1])]

(* C11: every published diagnostic has start.character <= end.character,   *)
(* and when its start line exists in the document neither character offset *)
(* exceeds the length of that line.                                        *)
C11_RangeIsWellFormedAndClamped ==
  HasDiagnostics =>
    \A i \in 1..Len(Published) :
      LET d == Published[i]
      IN  /\ d.start.character <= d.end.character
          /\ d.start.line < Len(StoredLines) =>
               /\ d.start.character <= Len(StoredLines[d.start.line + 1])
               /\ d.end.character <= Len(StoredLines[d.start.line + 1])

(* C11, the part the code keeps: the end of a diagnostic on an existing    *)
(* line never exceeds the length of that line, and a diagnostic on a line  *)
(* the document does not have is one character wide.                       *)
C11_EndIsClamped ==
  HasDiagnostics =>
    \A i \in 1..Len(Published) :
      LET d == Published[i]
      IN  IF d.start.line < Len(StoredLines)
          THEN d.end.character = Len(StoredLines[d.start.line + 1])
          ELSE d.end.character = d.start.character + 1

(* C12: every well-formed request read by the message loop, whatever its   *)
(* method, has been answered by exactly one response carrying its id when  *)
(* the next message is read.                                               *)
C12_EveryRequestAnsweredOnce ==
  (msg.type = "request" /\ msg.wellformed) =>
    /\ Len(out) = 1
    /\ out[1].type = "response"
    /\ out[1].id = msg.id

(* C12, the part the code keeps: initialize, shutdown and well-formed      *)
(* completion and hover requests get exactly one response with their id,   *)
(* and the loop has ended exactly when the last message was a shutdown.    *)
C12_KnownRequestsAnsweredOnce ==
  /\ (msg.type = "request" /\ msg.wellformed
        /\ msg.method \in {"initialize", "shutdown", "textDocument/completion",
                           "textDocument/hover"}) =>
       /\ Len(out) = 1
       /\ out[1].type = "response"
       /\ out[1].id = msg.id
  /\ status = "stopped" <=> (msg.type = "request" /\ msg.method = "shutdown")

====
